---- MODULE Spec2Model ----
(***************************************************************************)
(* Model of the two Tauri command handlers of ai-chat-shell                *)
(* (src-tauri/src/commands.rs), registered in main.rs:                     *)
(*   inject_theme(_window, theme) -> Result<(), String>                    *)
(*   get_app_config_dir()         -> Result<String, String>                *)
(* Invocations are dispatched by the host on a multi-threaded runtime, so  *)
(* the steps of different invocations interleave at every point where a    *)
(* handler touches something outside its own frame: a println! (stdout is  *)
(* locked per println!) and the host's path lookup.                        *)
(* Text is modelled by TLA+ strings; a filesystem path (an OsString on     *)
(* Unix) and the String made from it are sequences of bytes.               *)
(***************************************************************************)
EXTENDS FiniteSets, Integers, Sequences, TLC

VARIABLES
  calls,    \* the invocations dispatched so far, in dispatch order
  log,      \* the diagnostic log (stdout): the lines written, oldest first
  surface,  \* the style the display surface (the window) renders with
  hostDir   \* what the host platform layer answers to app_config_dir now

vars == <<calls, log, surface, hostDir>>

(* ------------------------------ bounds --------------------------------- *)

\* number of invocations the front end makes in one run
MaxCalls == 2

\* theme arguments the front end sends: the two expected names, the empty
\* string, a differently-cased variant and an unexpected value
Themes == {"dark", "light", "", "Dark", "solarized"}

\* Option<PathBuf>
None == [tag |-> "None"]
Some(path) == [tag |-> "Some", path |-> path]

\* paths the host platform layer may hand out, as bytes: the empty path,
\* "/a", "/" followed by U+00E9 (0xC3 0xA9), the lone byte 0xFF (in no UTF-8
\* text), and a 0xC3 that no continuation byte follows
HostPaths == {<<>>, <<47, 97>>, <<47, 195, 169>>, <<255>>, <<195, 47>>}

HostAnswers == {None} \cup {Some(p) : p \in HostPaths}

(* ------------------------ inject_theme: pure parts --------------------- *)

\* the raw string literal of the "dark" branch
DarkCss ==
  "\n        :root {\n            color-scheme: dark;\n        }\n        body {\n            background-color: #1a1a1a !important;\n        }\n        "

\* the raw string literal of the else branch
LightCss ==
  "\n        :root {\n            color-scheme: light;\n        }\n        "

\* whether text p occurs in text s
Contains(s, p) ==
  \E i \in 1..(Len(s) - Len(p) + 1) : SubSeq(s, i, i + Len(p) - 1) = p

\* how many times text p occurs in text s
Occurrences(s, p) ==
  Cardinality({i \in 1..(Len(s) - Len(p) + 1) : SubSeq(s, i, i + Len(p) - 1) = p})

\* CssFor with the two branches the wrong way round
CssForSwapped(theme) == IF theme = "dark" THEN LightCss ELSE DarkCss

\* CssFor comparing the theme name without regard to case
CssForAnyCase(theme) ==
  IF theme \in {"dark", "Dark", "DARK"} THEN DarkCss ELSE LightCss

\* CssFor deriving no CSS at all for an empty theme name
CssForEmptyNone(theme) ==
  IF theme = "dark" THEN DarkCss ELSE IF theme = "" THEN "" ELSE LightCss

\* CssFor remembering a "dark" request of any invocation: it reads the log
CssForSticky(theme) ==
  IF theme = "dark" \/ \E i \in DOMAIN log : log[i].text = "Theme injection request: dark\n"
  THEN DarkCss ELSE LightCss

\* let css = if theme == "dark" { .. } else { .. };
CssFor(theme) == IF theme = "dark" THEN DarkCss ELSE LightCss

\* println!("Theme injection request: {}", theme);
RequestLine(theme) == "Theme injection request: " \o theme \o "\n"

\* println!("CSS to inject: {}", css);
CssLine(css) == "CSS to inject: " \o css \o "\n"

\* InjectResult refusing the theme names it does not know
InjectResultStrict(theme) ==
  IF theme \in {"dark", "light"}
  THEN [kind |-> "Ok"]
  ELSE [kind |-> "Err", msg |-> "Unknown theme"]

\* Ok(())
InjectResult(theme) == [kind |-> "Ok"]

\* SurfaceAfterInject applying the derived CSS to the window
SurfaceApplied(style, css) == css

\* the window argument is unused (_window) and the injection itself is a
\* comment: a call leaves the style of the display surface as it was
SurfaceAfterInject(style, css) == style

(* --------------------- get_app_config_dir: pure parts ------------------ *)

\* core::str::utf8_char_width: the length a first byte announces, 0 if the
\* byte can start no character
Utf8CharWidth(b) ==
  IF b < 128 THEN 1
  ELSE IF b >= 194 /\ b <= 223 THEN 2
  ELSE IF b >= 224 /\ b <= 239 THEN 3
  ELSE IF b >= 240 /\ b <= 244 THEN 4
  ELSE 0

\* safe_get: the byte at i, 0 past the end
SafeGet(bytes, i) == IF i >= 1 /\ i <= Len(bytes) THEN bytes[i] ELSE 0

\* byte & 0b1100_0000 == 0b1000_0000
IsContinuation(b) == b \div 64 = 2

\* the second byte a three- or four-byte first byte admits
SecondByteOk(first, second) ==
  \/ first = 224 /\ second >= 160 /\ second <= 191
  \/ first >= 225 /\ first <= 236 /\ second >= 128 /\ second <= 191
  \/ first = 237 /\ second >= 128 /\ second <= 159
  \/ first >= 238 /\ first <= 239 /\ second >= 128 /\ second <= 191
  \/ first = 240 /\ second >= 144 /\ second <= 191
  \/ first >= 241 /\ first <= 243 /\ second >= 128 /\ second <= 191
  \/ first = 244 /\ second >= 128 /\ second <= 143

\* ScanChar taking every byte above 0x7F for a broken sequence
ScanCharAscii(bytes, i) ==
  [valid |-> bytes[i] < 128, next |-> i + 1]

\* one step of the lossy decoder at index i: whether a whole character starts
\* there, and the index the decoder goes on from (after the character, or
\* after the bytes of the broken sequence)
ScanChar(bytes, i) ==
  LET b == bytes[i]
      w == Utf8CharWidth(b)
  IN  IF w = 1 THEN [valid |-> TRUE, next |-> i + 1]
      ELSE IF w = 2 THEN
        IF IsContinuation(SafeGet(bytes, i + 1))
        THEN [valid |-> TRUE, next |-> i + 2]
        ELSE [valid |-> FALSE, next |-> i + 1]
      ELSE IF w = 3 THEN
        IF ~SecondByteOk(b, SafeGet(bytes, i + 1))
        THEN [valid |-> FALSE, next |-> i + 1]
        ELSE IF ~IsContinuation(SafeGet(bytes, i + 2))
        THEN [valid |-> FALSE, next |-> i + 2]
        ELSE [valid |-> TRUE, next |-> i + 3]
      ELSE IF w = 4 THEN
        IF ~SecondByteOk(b, SafeGet(bytes, i + 1))
        THEN [valid |-> FALSE, next |-> i + 1]
        ELSE IF ~IsContinuation(SafeGet(bytes, i + 2))
        THEN [valid |-> FALSE, next |-> i + 2]
        ELSE IF ~IsContinuation(SafeGet(bytes, i + 3))
        THEN [valid |-> FALSE, next |-> i + 3]
        ELSE [valid |-> TRUE, next |-> i + 4]
      ELSE [valid |-> FALSE, next |-> i + 1]

\* Replacement dropping a broken sequence instead of marking it
ReplacementDropped == <<>>

\* U+FFFD REPLACEMENT CHARACTER in UTF-8
Replacement == <<239, 191, 189>>

RECURSIVE LossyFrom(_, _)
\* the text the lossy decoder makes of bytes[i..]: whole characters are
\* copied, every broken sequence becomes one U+FFFD
LossyFrom(bytes, i) ==
  IF i > Len(bytes) THEN <<>>
  ELSE LET s == ScanChar(bytes, i)
       IN  (IF s.valid THEN SubSeq(bytes, i, s.next - 1) ELSE Replacement)
             \o LossyFrom(bytes, s.next)

\* path.to_string_lossy().to_string()
ToStringLossy(path) == LossyFrom(path, 1)

\* the error text of the None arm
NoConfigDir == "Could not determine app config directory"

\* ConfigDirResult refusing an empty path as if the host had resolved none
ConfigDirResultNonEmpty(answer) ==
  IF answer.tag = "Some" /\ answer.path # <<>>
  THEN [kind |-> "Ok", text |-> ToStringLossy(answer.path)]
  ELSE [kind |-> "Err", msg |-> NoConfigDir]

\* ConfigDirResult answering from the first outcome any invocation returned
ConfigDirResultCached(answer) ==
  LET earlier == {d \in DOMAIN calls : /\ calls[d].op = "get_app_config_dir"
                                        /\ calls[d].pc = "done"}
      fresh == IF answer.tag = "Some"
               THEN [kind |-> "Ok", text |-> ToStringLossy(answer.path)]
               ELSE [kind |-> "Err", msg |-> NoConfigDir]
  IN  IF earlier = {} THEN fresh
      ELSE calls[CHOOSE d \in earlier : \A e \in earlier : d <= e].result

\* match .. { Some(path) => Ok(..), None => Err(..) }
ConfigDirResult(answer) ==
  IF answer.tag = "Some"
  THEN [kind |-> "Ok", text |-> ToStringLossy(answer.path)]
  ELSE [kind |-> "Err", msg |-> NoConfigDir]

\* where a call goes after the host answered: straight to the match, whatever
\* the answer (the lookup is one expression, evaluated once)
AfterQuery(answer, queries) == "match"

(* ------------------------------ the state ------------------------------ *)

Pending == [kind |-> "pending"]
Unqueried == [tag |-> "unqueried"]

\* the style the window renders with before any call
HostStyle == "host-default"

NewInjectTheme(theme) ==
  [op |-> "inject_theme", theme |-> theme, pc |-> "println_request",
   css |-> CssFor(theme), result |-> Pending, seen |-> Unqueried, queries |-> 0]

NewGetAppConfigDir ==
  [op |-> "get_app_config_dir", theme |-> "", pc |-> "query",
   css |-> "", result |-> Pending, seen |-> Unqueried, queries |-> 0]

Init ==
  /\ calls = <<>>
  /\ log = <<>>
  /\ surface = HostStyle
  /\ hostDir \in HostAnswers

(* ------------------------------ inject_theme --------------------------- *)

\* the front end invokes inject_theme(theme); the handler derives css
InjectThemeBegin(theme) ==
  /\ Len(calls) < MaxCalls
  /\ calls' = Append(calls, NewInjectTheme(theme))
  /\ UNCHANGED <<log, surface, hostDir>>

\* println!("Theme injection request: {}", theme);
InjectThemePrintRequest(c) ==
  /\ calls[c].op = "inject_theme"
  /\ calls[c].pc = "println_request"
  /\ log' = Append(log, [by |-> c, text |-> RequestLine(calls[c].theme)])
  /\ calls' = [calls EXCEPT ![c].pc = "println_css"]
  /\ UNCHANGED <<surface, hostDir>>

\* println!("CSS to inject: {}", css); Ok(())
InjectThemePrintCss(c) ==
  /\ calls[c].op = "inject_theme"
  /\ calls[c].pc = "println_css"
  /\ log' = Append(log, [by |-> c, text |-> CssLine(calls[c].css)])
  /\ surface' = SurfaceAfterInject(surface, calls[c].css)
  /\ calls' = [calls EXCEPT ![c].pc = "done",
                            ![c].result = InjectResult(calls[c].theme)]
  /\ UNCHANGED hostDir

(* --------------------------- get_app_config_dir ------------------------ *)

\* the front end invokes get_app_config_dir()
GetAppConfigDirBegin ==
  /\ Len(calls) < MaxCalls
  /\ calls' = Append(calls, NewGetAppConfigDir)
  /\ UNCHANGED <<log, surface, hostDir>>

\* tauri::api::path::app_config_dir(&tauri::Config::default())
GetAppConfigDirQuery(c) ==
  /\ calls[c].op = "get_app_config_dir"
  /\ calls[c].pc = "query"
  /\ calls' = [calls EXCEPT ![c].seen = hostDir,
                            ![c].queries = @ + 1,
                            ![c].pc = AfterQuery(hostDir, calls[c].queries + 1)]
  /\ UNCHANGED <<log, surface, hostDir>>

\* the match on the host's answer, and the return
GetAppConfigDirMatch(c) ==
  /\ calls[c].op = "get_app_config_dir"
  /\ calls[c].pc = "match"
  /\ calls' = [calls EXCEPT ![c].pc = "done",
                            ![c].result = ConfigDirResult(calls[c].seen)]
  /\ UNCHANGED <<log, surface, hostDir>>

(* ------------------------------ the host ------------------------------- *)

\* the environment the host resolves the directory from changes
HostChange ==
  /\ \E a \in HostAnswers \ {hostDir} : hostDir' = a
  /\ UNCHANGED <<calls, log, surface>>

Next ==
  \/ \E theme \in Themes : InjectThemeBegin(theme)
  \/ \E c \in DOMAIN calls : InjectThemePrintRequest(c)
  \/ \E c \in DOMAIN calls : InjectThemePrintCss(c)
  \/ GetAppConfigDirBegin
  \/ \E c \in DOMAIN calls : GetAppConfigDirQuery(c)
  \/ \E c \in DOMAIN calls : GetAppConfigDirMatch(c)
  \/ HostChange

Spec == Init /\ [][Next]_vars

(* --------------------- a handler run on its own ------------------------ *)

\* inject_theme run from start to end with nothing else running, on a log
\* and a surface of its own
InjectThemeAlone(theme, log0, style0) ==
  LET css == CssFor(theme)
  IN  [css |-> css,
       log |-> log0 \o <<RequestLine(theme), CssLine(css)>>,
       surface |-> SurfaceAfterInject(style0, css),
       result |-> InjectResult(theme)]

\* get_app_config_dir run from start to end with the host answering `answer`
GetAppConfigDirAlone(answer) ==
  [queries |-> 1, result |-> ConfigDirResult(answer)]

(* ------------------------------ properties ----------------------------- *)

IsInject(c) == calls[c].op = "inject_theme"
IsConfig(c) == calls[c].op = "get_app_config_dir"
IsDone(c) == calls[c].pc = "done"

\* the texts of the lines invocation c wrote to the log, oldest first
RECURSIVE TextsBy(_, _)
TextsBy(c, l) ==
  IF l = <<>> THEN <<>>
  ELSE (IF Head(l).by = c THEN <<Head(l).text>> ELSE <<>>) \o TextsBy(c, Tail(l))

\* the texts of all lines of a log
RECURSIVE Texts(_)
Texts(l) == IF l = <<>> THEN <<>> ELSE <<Head(l).text>> \o Texts(Tail(l))

RECURSIVE WellFormedFrom(_, _)
\* bytes[i..] is well-formed UTF-8 (the Unicode standard's table of
\* well-formed byte sequences)
WellFormedFrom(bytes, i) ==
  IF i > Len(bytes) THEN TRUE
  ELSE
    LET b1 == bytes[i]
        b2 == IF i + 1 <= Len(bytes) THEN bytes[i + 1] ELSE -1
        b3 == IF i + 2 <= Len(bytes) THEN bytes[i + 2] ELSE -1
        b4 == IF i + 3 <= Len(bytes) THEN bytes[i + 3] ELSE -1
        Tail80BF(b) == b \in 128..191
    IN  \/ b1 \in 0..127 /\ WellFormedFrom(bytes, i + 1)
        \/ b1 \in 194..223 /\ Tail80BF(b2) /\ WellFormedFrom(bytes, i + 2)
        \/ /\ \/ b1 = 224 /\ b2 \in 160..191
              \/ b1 \in 225..236 /\ Tail80BF(b2)
              \/ b1 = 237 /\ b2 \in 128..159
              \/ b1 \in 238..239 /\ Tail80BF(b2)
           /\ Tail80BF(b3)
           /\ WellFormedFrom(bytes, i + 3)
        \/ /\ \/ b1 = 240 /\ b2 \in 144..191
              \/ b1 \in 241..243 /\ Tail80BF(b2)
              \/ b1 = 244 /\ b2 \in 128..143
           /\ Tail80BF(b3)
           /\ Tail80BF(b4)
           /\ WellFormedFrom(bytes, i + 4)

IsUtf8(bytes) == WellFormedFrom(bytes, 1)

\* C1: every inject_theme call whose theme is exactly "dark" derives a CSS
\* text that holds the dark color-scheme declaration and the background-color
\* override, and the CSS line it logs holds both too.
C1_DarkCss ==
  /\ \A css \in {calls[c].css : c \in {d \in DOMAIN calls :
                                          IsInject(d) /\ calls[d].theme = "dark"}} :
       /\ Contains(css, "color-scheme: dark")
       /\ Contains(css, "background-color: #1a1a1a")
  /\ \A c \in DOMAIN calls :
       IsInject(c) /\ calls[c].theme = "dark" /\ IsDone(c) =>
         /\ Len(TextsBy(c, log)) = 2
         /\ Contains(TextsBy(c, log)[2], "color-scheme: dark")
         /\ Contains(TextsBy(c, log)[2], "background-color: #1a1a1a")

C1_Witness ==
  \E c \in DOMAIN calls :
    /\ IsInject(c) /\ IsDone(c) /\ calls[c].theme = "dark"
    /\ Contains(TextsBy(c, log)[2], "background-color: #1a1a1a")

\* C2: every inject_theme call whose theme is anything but exactly "dark"
\* (empty, "light", "Dark", an unexpected name) derives a CSS text
\* that holds the light color-scheme declaration and no other color-scheme
\* declaration (so no dark one), and no background override.
C2_LightCss ==
  \A css \in {calls[c].css : c \in {d \in DOMAIN calls :
                                       IsInject(d) /\ calls[d].theme # "dark"}} :
    /\ Contains(css, "color-scheme: light")
    /\ Occurrences(css, "color-scheme") = 1
    /\ ~Contains(css, "background")

C2_Witness ==
  /\ Len(calls) = 2
  /\ \A c \in DOMAIN calls : IsInject(c) /\ IsDone(c)
  /\ calls[1].theme = "Dark"
  /\ calls[2].theme = ""
  /\ Contains(calls[1].css, "color-scheme: light")

\* C3: every inject_theme call that has returned returned Ok(()), whatever
\* its theme and whatever calls of either handler came before it.
C3_AlwaysOk ==
  \A c \in DOMAIN calls :
    IsInject(c) =>
      /\ calls[c].result.kind # "Err"
      /\ IsDone(c) => calls[c].result = [kind |-> "Ok"]

C3_Witness ==
  /\ Len(calls) = 2
  /\ IsConfig(1) /\ IsDone(1) /\ calls[1].result.kind = "Err"
  /\ IsInject(2) /\ IsDone(2) /\ calls[2].theme = "solarized"
  /\ calls[2].result.kind = "Ok"

\* C4: a get_app_config_dir call that has returned returned Ok with a text
\* exactly when the host resolved a directory for it, and the error
\* "Could not determine app config directory" exactly when the host resolved
\* none; it returned nothing else.
C4_OkIffResolved ==
  \A c \in DOMAIN calls :
    IsConfig(c) /\ IsDone(c) =>
      /\ calls[c].result.kind \in {"Ok", "Err"}
      /\ calls[c].result.kind = "Ok" <=> calls[c].seen.tag = "Some"
      /\ calls[c].result.kind = "Err" <=> calls[c].seen = None
      /\ calls[c].result.kind = "Err" =>
           calls[c].result =
             [kind |-> "Err", msg |-> "Could not determine app config directory"]
      /\ calls[c].result.kind = "Ok" => DOMAIN calls[c].result = {"kind", "text"}

C4_Witness ==
  /\ Len(calls) = 2
  /\ IsConfig(1) /\ IsDone(1) /\ calls[1].seen = Some(<<>>)
  /\ calls[1].result.kind = "Ok"
  /\ IsConfig(2) /\ IsDone(2) /\ calls[2].seen = None
  /\ calls[2].result.kind = "Err"

\* C5 as stated: the text a successful get_app_config_dir call returns is the
\* host's path byte for byte, for every path, those that are not UTF-8
\* included.
C5_Verbatim ==
  \A c \in DOMAIN calls :
    IsConfig(c) /\ IsDone(c) /\ calls[c].seen.tag = "Some" =>
      calls[c].result.text = calls[c].seen.path

\* C5 as amended: the text a successful get_app_config_dir call returns is
\* the host's path byte for byte exactly when the path is well-formed UTF-8;
\* of any other path the text holds U+FFFD where the path is broken.
C5_VerbatimIfUtf8 ==
  \A c \in DOMAIN calls :
    IsConfig(c) /\ IsDone(c) /\ calls[c].seen.tag = "Some" =>
      /\ IsUtf8(calls[c].seen.path) <=>
           calls[c].result.text = calls[c].seen.path
      /\ ~IsUtf8(calls[c].seen.path) =>
           \E i \in 1..Len(calls[c].result.text) - 2 :
             SubSeq(calls[c].result.text, i, i + 2) = <<239, 191, 189>>

C5_Witness ==
  /\ Len(calls) = 2
  /\ IsConfig(1) /\ IsDone(1) /\ calls[1].seen = Some(<<47, 195, 169>>)
  /\ calls[1].result.text = <<47, 195, 169>>
  /\ IsConfig(2) /\ IsDone(2) /\ calls[2].seen = Some(<<195, 47>>)
  /\ calls[2].result.text = <<239, 191, 189, 47>>

C7_EmptySameAsLight ==
  \A c1, c2 \in DOMAIN calls :
    /\ IsInject(c1) /\ IsDone(c1) /\ calls[c1].theme = ""
    /\ IsInject(c2) /\ IsDone(c2) /\ calls[c2].theme = "light"
    => /\ calls[c1].result = calls[c2].result
       /\ calls[c1].css = calls[c2].css
       /\ TextsBy(c1, log) = TextsBy(c2, log)
       /\ InjectThemeAlone("", Texts(log), surface)
            = InjectThemeAlone("light", Texts(log), surface)

\* C7 as amended: an inject_theme call with the empty theme and one with
\* "light" agree in the result, the CSS derived, the CSS line logged and the
\* surface left; the request line each logs names its own theme, so the two
\* request lines differ ("Theme injection request: " followed by nothing, and
\* by "light").
C7_EmptyAsLightButRequestLine ==
  \A c1, c2 \in DOMAIN calls :
    /\ IsInject(c1) /\ IsDone(c1) /\ calls[c1].theme = ""
    /\ IsInject(c2) /\ IsDone(c2) /\ calls[c2].theme = "light"
    => LET t1 == TextsBy(c1, log)
           t2 == TextsBy(c2, log)
           a == InjectThemeAlone("", Texts(log), surface)
           b == InjectThemeAlone("light", Texts(log), surface)
           n == Len(log)
       IN  /\ calls[c1].result = calls[c2].result
           /\ calls[c1].css = calls[c2].css
           /\ Len(t1) = 2 /\ Len(t2) = 2
           /\ t1[2] = t2[2]
           /\ t1[1] = "Theme injection request: \n"
           /\ t2[1] = "Theme injection request: light\n"
           /\ a.result = b.result /\ a.css = b.css /\ a.surface = b.surface
           /\ Len(a.log) = n + 2 /\ Len(b.log) = n + 2
           /\ SubSeq(a.log, 1, n) = SubSeq(b.log, 1, n)
           /\ a.log[n + 2] = b.log[n + 2]
           /\ a.log[n + 1] # b.log[n + 1]

C7_Witness ==
  /\ Len(calls) = 2
  /\ IsInject(1) /\ IsDone(1) /\ calls[1].theme = ""
  /\ IsInject(2) /\ IsDone(2) /\ calls[2].theme = "light"
  /\ calls[1].css = calls[2].css
  /\ TextsBy(1, log) # TextsBy(2, log)

\* C8: however the steps of the invocations interleave, every invocation
\* derives the CSS, writes the lines and returns the result it would have
\* run alone, and two invocations given the same input return the same.
C8_Independent ==
  /\ \A c \in DOMAIN calls :
       /\ IsInject(c) =>
            LET alone == InjectThemeAlone(calls[c].theme, <<>>, HostStyle)
            IN  /\ calls[c].css = alone.css
                /\ IsDone(c) => /\ calls[c].result = alone.result
                                /\ TextsBy(c, log) = alone.log
       /\ IsConfig(c) /\ IsDone(c) =>
            LET alone == GetAppConfigDirAlone(calls[c].seen)
            IN  /\ calls[c].result = alone.result
                /\ calls[c].queries = alone.queries
  /\ \A c, d \in DOMAIN calls :
       /\ IsDone(c) /\ IsDone(d)
       /\ calls[c].op = calls[d].op
       /\ calls[c].theme = calls[d].theme
       /\ calls[c].seen = calls[d].seen
       => /\ calls[c].result = calls[d].result
          /\ calls[c].css = calls[d].css

C8_Witness ==
  /\ Len(calls) = 2
  /\ IsInject(1) /\ IsDone(1) /\ calls[1].theme = "light"
  /\ IsInject(2) /\ IsDone(2) /\ calls[2].theme = "dark"
  /\ Len(log) = 4
  /\ log[1].by = 1 /\ log[2].by = 2 /\ log[3].by = 2 /\ log[4].by = 1
  /\ calls[1].css = LightCss

\* C9: a step of an inject_theme call changes nothing but the log and the
\* call's own progress: the surface, the host and the other calls stay as
\* they are, and the log grows by one line, first the request line naming
\* the call's theme and then the line with the CSS derived for that theme.
\* The surface renders with the host's style throughout.
C9_LogOnly ==
  /\ [](surface = HostStyle)
  /\ [][\A c \in DOMAIN calls :
          IsInject(c) /\ calls'[c] # calls[c] =>
            /\ surface' = surface
            /\ hostDir' = hostDir
            /\ \A d \in DOMAIN calls : d # c => calls'[d] = calls[d]
            /\ calls'[c].theme = calls[c].theme /\ calls'[c].css = calls[c].css
            /\ \/ /\ TextsBy(c, log) = <<>>
                  /\ log' = Append(log,
                       [by |-> c,
                        text |-> "Theme injection request: " \o calls[c].theme \o "\n"])
               \/ /\ Len(TextsBy(c, log)) = 1
                  /\ log' = Append(log,
                       [by |-> c,
                        text |-> "CSS to inject: " \o calls[c].css \o "\n"])
                  /\ calls'[c].pc = "done"]_vars

C9_Witness ==
  /\ Len(calls) = 2
  /\ IsInject(1) /\ IsDone(1) /\ calls[1].theme = "dark"
  /\ IsInject(2) /\ IsDone(2) /\ calls[2].theme = "solarized"
  /\ surface = HostStyle
  /\ Texts(log) = <<"Theme injection request: dark\n",
                    "CSS to inject: " \o DarkCss \o "\n",
                    "Theme injection request: solarized\n",
                    "CSS to inject: " \o LightCss \o "\n">>

\* C10: a get_app_config_dir call that has returned asked the host once and
\* returned what the host answered to that one question: the error if the
\* host resolved none, a text made of that path if it resolved one, whatever
\* an earlier call returned.
C10_OneLookupNoCache ==
  \A c \in DOMAIN calls :
    /\ IsConfig(c) => calls[c].queries <= 1
    /\ IsConfig(c) /\ IsDone(c) =>
         /\ calls[c].queries = 1
         /\ calls[c].seen \in HostAnswers
         /\ calls[c].seen = None => calls[c].result.kind = "Err"
         /\ calls[c].seen.tag = "Some" =>
              /\ calls[c].result.kind = "Ok"
              /\ IsUtf8(calls[c].seen.path) =>
                   calls[c].result.text = calls[c].seen.path
              /\ Len(calls[c].result.text) >= Len(calls[c].seen.path)

C10_Witness ==
  /\ Len(calls) = 2
  /\ IsConfig(1) /\ IsDone(1) /\ calls[1].seen = None
  /\ calls[1].result.kind = "Err"
  /\ IsConfig(2) /\ IsDone(2) /\ calls[2].seen = Some(<<47, 97>>)
  /\ calls[2].result = [kind |-> "Ok", text |-> <<47, 97>>]
  /\ hostDir = Some(<<47, 97>>)

====
